---- MODULE Spec2Model ----
(***************************************************************************)
(* A model of ts-result (src/index.ts): the Result value, the constructors *)
(* ok and err, and the bridge tryCatch with its synchronous path and its    *)
(* promise path (Promise.resolve(res).then(ok).catch(makeErrorResult)).     *)
(*                                                                          *)
(* JavaScript values are records with a 'kind'; objects that have an        *)
(* identity carry a reference 'ref', so "the same object" is equality of    *)
(* the whole record and a copy differs in 'ref'.                            *)
(***************************************************************************)
EXTENDS Naturals, Sequences, FiniteSets, TLC

VARIABLES inv

vars == <<inv>>

(***************************************************************************)
(* Bounds.                                                                  *)
(***************************************************************************)
\* concurrent tryCatch invocations in FairSpec
MaxCalls == 2
\* the numbers 0..MaxNum are among the values thrown and returned
MaxNum == 1

(***************************************************************************)
(* JavaScript values.                                                       *)
(***************************************************************************)
V(kind) ==
  [kind |-> kind, text |-> "", num |-> 0, ref |-> 0, cls |-> "",
   message |-> "", name |-> "", stack |-> "", args |-> <<>>]

Undefined == V("undefined")
Null == V("null")
Num(n) == [V("number") EXCEPT !.num = n]
Str(s) == [V("string") EXCEPT !.text = s]
Sym == V("symbol")
\* {}
PlainObj == [V("plain") EXCEPT !.cls = "Object"]
\* Object.create(null): no toString, no valueOf
NullProto == V("nullproto")
\* { then: 1 }: a 'then' member that is not callable
BadThen == [V("badthen") EXCEPT !.cls = "Object"]
\* { then(resolve, reject) { ... } }: a thenable that is no native promise
ThenObj == [V("thenobj") EXCEPT !.cls = "Object"]
\* a native Promise
PromiseVal == [V("promise") EXCEPT !.cls = "Promise"]
\* () => {}
Fn == [V("fn") EXCEPT !.text = "() => {}"]
\* a function that carries a then method
ThenFn == [V("thenfn") EXCEPT !.text = "function f() {}"]
\* a class (constructor) value
Cls(c) == [V("class") EXCEPT !.cls = c, !.text = "class " \o c \o " {}"]
\* { name, message, stack }: has the error capability, is no instance of Error
Duck == [V("duck") EXCEPT !.cls = "Object", !.ref = 5, !.message = "duck",
                          !.name = "DuckError", !.stack = "user"]

\* an instance of class c (c is Error or derives from it), allocated at 'site'
ErrObj(c, msg, args, site, ref) ==
  [V("error") EXCEPT !.cls = c, !.message = msg, !.name = c, !.stack = site,
                     !.args = args, !.ref = ref]

\* the superclass of each class of the model ("" above Object)
Parent(c) ==
  CASE c = "Error" -> "Object"
    [] c = "TypeError" -> "Error"
    [] c = "TestError" -> "Error"
    [] c = "AnticipatedError" -> "Error"
    [] c = "DeepError" -> "TestError"
    [] c = "NonErrorClass" -> "Object"
    [] OTHER -> ""

\* Error.prototype is on the prototype chain that starts at c.prototype
RECURSIVE ChainHasError(_)
ChainHasError(c) ==
  IF c = "" THEN FALSE
  ELSE IF c = "Error" THEN TRUE
  ELSE ChainHasError(Parent(c))

\* typeof v
TypeOf(v) ==
  CASE v.kind = "undefined" -> "undefined"
    [] v.kind = "number" -> "number"
    [] v.kind = "string" -> "string"
    [] v.kind = "symbol" -> "symbol"
    [] v.kind \in {"fn", "thenfn", "class"} -> "function"
    [] OTHER -> "object"

\* v instanceof Error
InstanceOfError(v) == v.kind = "error" /\ ChainHasError(v.cls)

\* v.prototype instanceof Error: the chain of v.prototype starts above v
PrototypeInstanceOfError(v) == v.kind = "class" /\ ChainHasError(Parent(v.cls))

\* 'then' in v
HasThen(v) == v.kind \in {"badthen", "thenobj", "promise", "thenfn"}

Digit(d) ==
  CASE d = 0 -> "0" [] d = 1 -> "1" [] d = 2 -> "2" [] d = 3 -> "3"
    [] d = 4 -> "4" [] d = 5 -> "5" [] d = 6 -> "6" [] d = 7 -> "7"
    [] d = 8 -> "8" [] OTHER -> "9"

RECURSIVE NumStr(_)
NumStr(n) == IF n < 10 THEN Digit(n) ELSE NumStr(n \div 10) \o Digit(n % 10)

\* `${v}` raises a TypeError: a symbol, an object with no string conversion
TemplateThrows(v) == v.kind \in {"symbol", "nullproto"}

\* `${v}` where it does not raise
TemplateString(v) ==
  CASE v.kind = "undefined" -> "undefined"
    [] v.kind = "null" -> "null"
    [] v.kind = "number" -> NumStr(v.num)
    [] v.kind = "string" -> v.text
    [] v.kind \in {"fn", "thenfn", "class"} -> v.text
    [] v.kind = "promise" -> "[object Promise]"
    [] v.kind = "error" -> v.name \o ": " \o v.message
    [] OTHER -> "[object Object]"

\* new c(...args) for the classes of the model: the message is the first
\* argument (README.md TestError: super(message)), the name is the class's
Construct(c, args, site, ref) ==
  ErrObj(c,
         IF Len(args) = 0 \/ args[1].kind = "undefined" THEN ""
         ELSE TemplateString(args[1]),
         args, site, ref)

(***************************************************************************)
(* The objects the caller holds before it calls the library.                *)
(***************************************************************************)
E1 == ErrObj("Error", "x", <<Str("x")>>, "user", 1)
E2 == ErrObj("Error", "expected error", <<Str("expected error")>>, "user", 2)
E3 == ErrObj("TestError", "test", <<Str("test"), E1>>, "user", 3)
E4 == ErrObj("DeepError", "deep", <<Str("deep")>>, "user", 4)

UserObjects == {E1, E2, E3, E4, Duck}

MaxUserRef == CHOOSE r \in {o.ref : o \in UserObjects} :
                \A o \in UserObjects : o.ref <= r

\* the k-th object invocation i allocates (an invocation allocates at most 3)
FreshRef(i, k) == MaxUserRef + 3 * (i - 1) + k

(***************************************************************************)
(* Result values and the outcomes of calls.                                 *)
(***************************************************************************)
\* a call or a step returns val, or raises val
Returned(v) == [kind |-> "return", val |-> v]
Raised(v) == [kind |-> "throw", val |-> v]

\* what a call of the library gives its caller: a Result, an exception, or a
\* promise (st: pending, then fulfilled with res or rejected with exc)
NoOutcome == [kind |-> "none", res |-> <<>>, exc |-> <<>>, st |-> "na"]
Return(r) == [kind |-> "return", res |-> <<r>>, exc |-> <<>>, st |-> "na"]
Throw(x) == [kind |-> "throw", res |-> <<>>, exc |-> <<x>>, st |-> "na"]
Pending == [kind |-> "deferred", res |-> <<>>, exc |-> <<>>, st |-> "pending"]
Fulfilled(r) ==
  [kind |-> "deferred", res |-> <<r>>, exc |-> <<>>, st |-> "fulfilled"]
Rejected(x) ==
  [kind |-> "deferred", res |-> <<>>, exc |-> <<x>>, st |-> "rejected"]

ErrResult(e) == [ok |-> FALSE, val |-> Undefined, err |-> e]

MisuseMessage == "err expects a string, Error, or Error class as an argument"

\* ok with the error field null instead of absent
ok_nullErr(val) == [ok |-> TRUE, val |-> val, err |-> Null]

\* export const ok
ok(val) == [ok |-> TRUE, val |-> val, err |-> Undefined]

\* err that wraps the misuse in a failure Result instead of raising it
err_wrapMisuse(x, args, ref) ==
  IF TypeOf(x) = "string"
  THEN Return(ErrResult(Construct("Error", <<x>>, "err", ref)))
  ELSE IF InstanceOfError(x)
  THEN Return(ErrResult(x))
  ELSE IF TypeOf(x) = "function" /\ PrototypeInstanceOfError(x)
  THEN Return(ErrResult(Construct(x.cls, args, "err", ref)))
  ELSE Return(ErrResult(Construct("Error", <<Str(MisuseMessage)>>, "err", ref)))

\* err that wraps a copy of the error object it is given
err_copy(x, args, ref) ==
  IF TypeOf(x) = "string"
  THEN Return(ErrResult(Construct("Error", <<x>>, "err", ref)))
  ELSE IF InstanceOfError(x)
  THEN Return(ErrResult(Construct(x.cls, <<Str(x.message)>>, "err", ref)))
  ELSE IF TypeOf(x) = "function" /\ PrototypeInstanceOfError(x)
  THEN Return(ErrResult(Construct(x.cls, args, "err", ref)))
  ELSE Throw(Construct("Error", <<Str(MisuseMessage)>>, "err", ref))

\* export const err; ref is the reference of the object it allocates
err(x, args, ref) ==
  IF TypeOf(x) = "string"
  THEN Return(ErrResult(Construct("Error", <<x>>, "err", ref)))
  ELSE IF InstanceOfError(x)
  THEN Return(ErrResult(x))
  ELSE IF TypeOf(x) = "function" /\ PrototypeInstanceOfError(x)
  THEN Return(ErrResult(Construct(x.cls, args, "err", ref)))
  ELSE Throw(Construct("Error", <<Str(MisuseMessage)>>, "err", ref))

(***************************************************************************)
(* Error transformers: the default, the one of the README's test, one that  *)
(* returns a structural error, one that always raises.                      *)
(***************************************************************************)
Transformers == {"identity", "anticipate", "duck", "raise"}

errorTransformer(T, e, ref) ==
  CASE T = "identity" -> Returned(e)
    [] T = "anticipate" ->
         IF e.message = "expected error"
         THEN Returned(Construct("AnticipatedError", <<>>, "transformer", ref))
         ELSE Raised(e)
    [] T = "duck" -> Returned(Duck)
    [] OTHER -> Raised(Str("boom"))

\* the first line of makeErrorResult: e instanceof Error ? e : new Error(`...`)
Normalize(e, ref) ==
  IF InstanceOfError(e) THEN Returned(e)
  ELSE IF TemplateThrows(e)
  THEN Raised(Construct("TypeError",
                        <<Str("Cannot convert value to a string")>>,
                        "makeErrorResult", ref))
  ELSE Returned(Construct("Error",
                          <<Str("Unexpected throw value '" \o TemplateString(e)
                                \o "' of type " \o TypeOf(e))>>,
                          "makeErrorResult", ref))

\* makeErrorResult with the transformer inside a second capture region
makeErrorResult_swallow(e, T, base) ==
  LET n == Normalize(e, base + 1) IN
  IF n.kind = "throw" THEN [out |-> Throw(n.val), tlog |-> <<>>]
  ELSE LET t == errorTransformer(T, n.val, base + 2) IN
       [out |-> IF t.kind = "throw"
                THEN err(IF InstanceOfError(t.val) THEN t.val
                         ELSE Str(TemplateString(t.val)), <<>>, base + 3)
                ELSE err(t.val, <<>>, base + 3),
        tlog |-> <<[arg |-> n.val, res |-> t]>>]

\* makeErrorResult(e): out is what it returns or raises, tlog the calls of
\* the transformer it made (argument and outcome)
makeErrorResult(e, T, base) ==
  LET n == Normalize(e, base + 1) IN
  IF n.kind = "throw" THEN [out |-> Throw(n.val), tlog |-> <<>>]
  ELSE LET t == errorTransformer(T, n.val, base + 2) IN
       [out |-> IF t.kind = "throw" THEN Throw(t.val)
                ELSE err(t.val, <<>>, base + 3),
        tlog |-> <<[arg |-> n.val, res |-> t]>>]

(***************************************************************************)
(* State: inv[i] is invocation i of the library.                            *)
(*   pc    idle, pending (a promise was returned and its source has not     *)
(*         settled), p1 (Promise.resolve(res) has settled), p2 (the         *)
(*         .then(ok) promise has settled), done                             *)
(*   op    ok, err or tryCatch; arg, args: the arguments of ok and err      *)
(*   expr  what the computation does when called: return val or throw val   *)
(*   T     the error transformer                                            *)
(*   p1    how Promise.resolve(res) settled; p2 how .then(ok) settled       *)
(*   out   what the caller got                                              *)
(*   nExpr the calls of the computation; tlog the calls of the transformer  *)
(***************************************************************************)
Unsettled == [kind |-> "none", val |-> Undefined]

Idle ==
  [pc |-> "idle", op |-> "none", arg |-> Undefined, args |-> <<>>,
   expr |-> Returned(Undefined), T |-> "none", p1 |-> Unsettled,
   p2 |-> NoOutcome, out |-> NoOutcome, nExpr |-> 0, tlog |-> <<>>]

\* res is handled on the promise path: line 123 of index.ts
IsDeferred(res) == TypeOf(res) = "object" /\ res.kind # "null" /\ HasThen(res)

\* Promise.resolve(res) adopts a native promise and a thenable (a callable
\* then); any other value fulfils it at once
Adopts(res) == res.kind \in {"promise", "thenobj", "thenfn"}

\* the synchronous part of tryCatch(expression, errorTransformer): the fields
\* of the invocation it sets
tryCatch(expression, T, base) ==
  IF expression.kind = "throw"
  THEN LET m == makeErrorResult(expression.val, T, base) IN
       [pc |-> "done", out |-> m.out, p1 |-> Unsettled, tlog |-> m.tlog]
  ELSE LET res == expression.val IN
       IF IsDeferred(res)
       THEN [pc |-> IF Adopts(res) THEN "pending" ELSE "p1",
             out |-> Pending,
             p1 |-> IF Adopts(res) THEN Unsettled
                    ELSE [kind |-> "fulfilled", val |-> res],
             tlog |-> <<>>]
       ELSE [pc |-> "done", out |-> Return(ok(res)), p1 |-> Unsettled,
             tlog |-> <<>>]

\* .then((val) => ok(val)) on p1: a rejection passes through
thenOk(p1) ==
  IF p1.kind = "fulfilled" THEN Fulfilled(ok(p1.val)) ELSE Rejected(p1.val)

\* .catch((e) => makeErrorResult(e)) on p2: a fulfilment passes through
catchMakeErrorResult(p2, T, base) ==
  IF p2.st = "fulfilled" THEN [out |-> p2, tlog |-> <<>>]
  ELSE LET m == makeErrorResult(p2.exc[1], T, base) IN
       [out |-> IF m.out.kind = "return" THEN Fulfilled(m.out.res[1])
                ELSE Rejected(m.out.exc[1]),
        tlog |-> m.tlog]

(***************************************************************************)
(* Actions.                                                                 *)
(***************************************************************************)
OkCall(i, v) ==
  /\ inv[i].pc = "idle"
  /\ inv' = [inv EXCEPT ![i] = [Idle EXCEPT !.pc = "done", !.op = "ok",
                                          !.arg = v, !.out = Return(ok(v))]]

ErrCall(i, x, args) ==
  /\ inv[i].pc = "idle"
  /\ inv' = [inv EXCEPT ![i] =
               [Idle EXCEPT !.pc = "done", !.op = "err", !.arg = x,
                            !.args = args,
                            !.out = err(x, args, FreshRef(i, 1))]]

TryCatchCall(i, e, T) ==
  /\ inv[i].pc = "idle"
  /\ LET r == tryCatch(e, T, FreshRef(i, 0)) IN
     inv' = [inv EXCEPT ![i] =
               [Idle EXCEPT !.pc = r.pc, !.op = "tryCatch", !.expr = e,
                            !.T = T, !.p1 = r.p1, !.out = r.out,
                            !.nExpr = 1, !.tlog = r.tlog]]

\* the promise or thenable the computation returned settles
Settle(i, s) ==
  /\ inv[i].pc = "pending"
  /\ inv' = [inv EXCEPT ![i].pc = "p1", ![i].p1 = s]

\* the reaction job of .then(ok)
ThenStep(i) ==
  /\ inv[i].pc = "p1"
  /\ inv' = [inv EXCEPT ![i].pc = "p2", ![i].p2 = thenOk(inv[i].p1)]

\* the .catch reaction reading the transformer from state shared by all calls
CatchStep_sharedT(i) ==
  /\ inv[i].pc = "p2"
  /\ LET c == catchMakeErrorResult(inv[i].p2, inv[1].T, FreshRef(i, 0)) IN
     inv' = [inv EXCEPT ![i].pc = "done", ![i].out = c.out,
                        ![i].tlog = inv[i].tlog \o c.tlog]

\* the reaction job of .catch(makeErrorResult)
CatchStep(i) ==
  /\ inv[i].pc = "p2"
  /\ LET c == catchMakeErrorResult(inv[i].p2, inv[i].T, FreshRef(i, 0)) IN
     inv' = [inv EXCEPT ![i].pc = "done", ![i].out = c.out,
                        ![i].tlog = inv[i].tlog \o c.tlog]

(***************************************************************************)
(* Inputs.                                                                  *)
(***************************************************************************)
Numbers == {Num(n) : n \in 0..MaxNum}

Classes == {Cls("Error"), Cls("TestError"), Cls("DeepError"),
            Cls("NonErrorClass")}

Errors == {E1, E2, E3, E4}

\* values a computation returns, an ok wraps, a promise is fulfilled with
Plain == {Undefined, Null, Str("x"), Sym, PlainObj, NullProto, Fn, Duck, E1}
           \cup Numbers

Deferreds == {PromiseVal, ThenObj}

Payloads == Plain \cup Deferreds \cup {BadThen, ThenFn}

\* values a computation throws, a promise is rejected with
Throwables == {Undefined, Null, Str("x"), Sym, PlainObj, NullProto, Fn, Duck}
                \cup Numbers \cup Errors

Exprs == {Returned(v) : v \in Payloads} \cup {Raised(x) : x \in Throwables}

Settlements == {[kind |-> "fulfilled", val |-> v] : v \in Plain}
                 \cup {[kind |-> "rejected", val |-> x] : x \in Throwables}

ErrArgs == {Str("test"), Str(""), PlainObj, Null, Fn, Duck, BadThen}
             \cup Numbers \cup Errors \cup Classes

ArgLists == {<<>>, <<Str("test")>>, <<Str("test"), E1>>}

\* Spec: one caller, one invocation
SeqCalls == {1}

\* FairSpec: MaxCalls invocations of tryCatch in flight at once
ConcCalls == 1..MaxCalls

ConcExprs == {Returned(PromiseVal)}

ConcTransformers == {"identity", "anticipate"}

ConcSettlements == {[kind |-> "fulfilled", val |-> Str("x")],
                    [kind |-> "rejected", val |-> E2],
                    [kind |-> "rejected", val |-> Sym]}

(***************************************************************************)
(* Specifications.                                                          *)
(***************************************************************************)
Init == inv = [i \in ConcCalls |-> Idle]

Next ==
  \E i \in SeqCalls :
    \/ \E v \in Payloads : OkCall(i, v)
    \/ \E x \in ErrArgs, a \in ArgLists : ErrCall(i, x, a)
    \/ \E e \in Exprs, T \in Transformers : TryCatchCall(i, e, T)
    \/ \E s \in Settlements : Settle(i, s)
    \/ ThenStep(i)
    \/ CatchStep(i)

Spec == Init /\ [][Next]_vars

FairNext ==
  \E i \in ConcCalls :
    \/ \E e \in ConcExprs, T \in ConcTransformers : TryCatchCall(i, e, T)
    \/ \E s \in ConcSettlements : Settle(i, s)
    \/ ThenStep(i)
    \/ CatchStep(i)

\* the host drains its microtask queue: a reaction job that is queued runs;
\* nothing obliges a promise to settle
FairSpec ==
  /\ Init
  /\ [][FairNext]_vars
  /\ \A i \in ConcCalls : WF_vars(ThenStep(i)) /\ WF_vars(CatchStep(i))

(***************************************************************************)
(* Vocabulary of the properties.                                            *)
(***************************************************************************)
\* v exposes a then-like method: a member 'then' that can be called
ExposesThenMethod(v) == v.kind \in {"promise", "thenobj", "thenfn"}

\* v is an error object: an instance of the host's error type or a subtype
IsErrorObject(v) == v.kind = "error"

\* v exposes message, name and trace
HasErrorCapability(v) == v.kind \in {"error", "duck"}

\* v is a constructor whose instances are error objects
IsErrorConstructor(v) == v.kind = "class" /\ ChainHasError(v.cls)

\* v was allocated by the library during invocation i
FreshIn(v, i) == v.ref > FreshRef(i, 0) /\ v.ref <= FreshRef(i, 3)

Populated(v) == v # Undefined

IsTryCatch(i) == inv[i].op = "tryCatch"

Done(i) == inv[i].pc = "done"

SyncThrow(i) == IsTryCatch(i) /\ inv[i].expr.kind = "throw"

AsyncReject(i) == IsTryCatch(i) /\ inv[i].p1.kind = "rejected"

AsyncResolve(i) == IsTryCatch(i) /\ inv[i].p1.kind = "fulfilled"

\* the value the computation raised or its deferred value rejected with
RaisedValue(i) == IF SyncThrow(i) THEN inv[i].expr.val ELSE inv[i].p1.val

\* the Result invocation i produced, on either path, if it produced one
Produced(i) == inv[i].out.res

\* on the path of invocation i: Result r was delivered / x was propagated
Delivers(i, r) ==
  inv[i].out = IF inv[i].expr.kind = "throw" THEN Return(r) ELSE Fulfilled(r)

Propagates(i, x) ==
  inv[i].out = IF inv[i].expr.kind = "throw" THEN Throw(x) ELSE Rejected(x)

UnexpectedMessage(x) ==
  "Unexpected throw value '" \o TemplateString(x) \o "' of type " \o TypeOf(x)

(***************************************************************************)
(* Properties.                                                              *)
(***************************************************************************)

\* C1: tryCatch returns a deferred Result if and only if the computation
\* returned a value that exposes a then-like method; any other returned value
\* gives a success Result at once, and a synchronous raise never gives a
\* deferred Result.
C1_ShapeIsStructural ==
  \A i \in ConcCalls : IsTryCatch(i) =>
    LET e == inv[i].expr
        o == inv[i].out
    IN /\ (o.kind = "deferred") <=>
            (e.kind = "return" /\ ExposesThenMethod(e.val))
       /\ (e.kind = "return" /\ ~ExposesThenMethod(e.val)) =>
            o = Return(ok(e.val))
       /\ e.kind = "throw" => o.kind # "deferred"

\* C2: when the transformer returns an error-capability object r for the
\* normalized raised value, the failure Result carries exactly r, returned on
\* the synchronous path and delivered by the deferred Result on the promise
\* path; a deferred value that resolves with v delivers ok(v).
C2_TransformedErrorCarried ==
  \A i \in ConcCalls : (IsTryCatch(i) /\ Done(i)) =>
    /\ (/\ Len(inv[i].tlog) = 1
        /\ inv[i].tlog[1].res.kind = "return"
        /\ HasErrorCapability(inv[i].tlog[1].res.val))
         => Delivers(i, ErrResult(inv[i].tlog[1].res.val))
    /\ AsyncResolve(i) => inv[i].out = Fulfilled(ok(inv[i].p1.val))

\* C3: when the transformer raises x, no Result is produced: the call raises
\* x on the synchronous path, the deferred Result rejects with x on the
\* promise path.
C3_TransformerRaisePropagates ==
  \A i \in ConcCalls : (IsTryCatch(i) /\ Done(i)) =>
    \A k \in 1..Len(inv[i].tlog) :
      inv[i].tlog[k].res.kind = "throw" =>
        /\ Propagates(i, inv[i].tlog[k].res.val)
        /\ Produced(i) = <<>>

\* C3 witness: a rejection whose transformer raised has been handled
C3_Witness ==
  \E i \in ConcCalls :
    /\ AsyncReject(i) /\ Done(i)
    /\ Len(inv[i].tlog) = 1 /\ inv[i].tlog[1].res.kind = "throw"
    /\ inv[i].out.st = "rejected"

\* C4: with the default transformer, every raised value that is no error
\* object gives a failure Result (no raise, no rejection) whose error is a new
\* generic error with the message "Unexpected throw value '<x>' of type <t>".
C4_RawValueNormalized ==
  \A i \in ConcCalls :
    (/\ IsTryCatch(i) /\ Done(i) /\ inv[i].T = "identity"
     /\ (SyncThrow(i) \/ AsyncReject(i))
     /\ ~IsErrorObject(RaisedValue(i)))
      => /\ Produced(i) # <<>>
         /\ inv[i].out.kind = IF SyncThrow(i) THEN "return" ELSE "deferred"
         /\ ~Produced(i)[1].ok
         /\ Produced(i)[1].err.cls = "Error"
         /\ FreshIn(Produced(i)[1].err, i)
         /\ ~TemplateThrows(RaisedValue(i)) =>
              Produced(i)[1].err.message = UnexpectedMessage(RaisedValue(i))

\* C5 as stated: in every Result produced exactly one of payload and error is
\* populated, the payload when the tag is success, the error (an error
\* object) when it is failure.
C5_ExactlyOnePopulated ==
  \A i \in ConcCalls : Produced(i) # <<>> =>
    LET r == Produced(i)[1] IN
      /\ r.ok => (Populated(r.val) /\ ~Populated(r.err))
      /\ ~r.ok => (Populated(r.err) /\ IsErrorObject(r.err) /\ ~Populated(r.val))

\* C5 amended: in every Result produced the tag decides which field may be
\* populated: success means the error is absent and the payload is the value
\* given (which may be the absent value), failure means the error is an error
\* object and the payload is absent; never both populated.
C5_TagDeterminesVariant ==
  \A i \in ConcCalls : Produced(i) # <<>> =>
    LET r == Produced(i)[1] IN
      /\ r.ok => ~Populated(r.err)
      /\ ~r.ok => (Populated(r.err) /\ IsErrorObject(r.err) /\ ~Populated(r.val))
      /\ ~(Populated(r.val) /\ Populated(r.err))
      /\ (~Populated(r.val) /\ ~Populated(r.err)) => r = ok(Undefined)
      /\ (inv[i].op = "ok" => r.ok /\ r.val = inv[i].arg)

\* C5 witness: a computation that returns nothing gave a success Result
C5_Witness ==
  \E i \in ConcCalls :
    /\ IsTryCatch(i) /\ inv[i].expr = Returned(Undefined)
    /\ Produced(i) # <<>> /\ Produced(i)[1].ok
    /\ ~Populated(Produced(i)[1].val)

\* C6: for every constructor C of error objects (the base error type's or a
\* subtype's) and every argument list, err(C, args) returns a failure Result
\* whose error is a new instance of C constructed with exactly args.
C6_ErrorConstructorAccepted ==
  \A i \in ConcCalls :
    (inv[i].op = "err" /\ IsErrorConstructor(inv[i].arg)) =>
      /\ inv[i].out.kind = "return"
      /\ ~Produced(i)[1].ok
      /\ Produced(i)[1].err.cls = inv[i].arg.cls
      /\ Produced(i)[1].err.args = inv[i].args
      /\ FreshIn(Produced(i)[1].err, i)

\* C7: err(x, ...) with x no text, no error object and no constructor of
\* error objects raises the misuse error and produces no Result.
C7_MisuseRaises ==
  \A i \in ConcCalls :
    (/\ inv[i].op = "err"
     /\ inv[i].arg.kind # "string"
     /\ ~IsErrorObject(inv[i].arg)
     /\ ~IsErrorConstructor(inv[i].arg))
      => /\ inv[i].out.kind = "throw"
         /\ Produced(i) = <<>>
         /\ inv[i].out.exc[1].message = MisuseMessage

\* C7 witness: err was called with a class that is no error class
C7_Witness ==
  \E i \in ConcCalls :
    /\ inv[i].op = "err" /\ inv[i].arg = Cls("NonErrorClass")
    /\ inv[i].out.kind = "throw"

\* C8: err(e) wraps the error object e itself, unmodified; tryCatch with the
\* default transformer wraps the very error object thrown or rejected with.
C8_ErrorObjectPassesThrough ==
  \A i \in ConcCalls :
    /\ (inv[i].op = "err" /\ IsErrorObject(inv[i].arg)) =>
         inv[i].out = Return(ErrResult(inv[i].arg))
    /\ (/\ IsTryCatch(i) /\ Done(i) /\ inv[i].T = "identity"
        /\ (SyncThrow(i) \/ AsyncReject(i))
        /\ IsErrorObject(RaisedValue(i)))
         => Delivers(i, ErrResult(RaisedValue(i)))

\* C8 witness: a deferred value rejected with an error object of a subtype
C8_Witness ==
  \E i \in ConcCalls :
    /\ AsyncReject(i) /\ Done(i) /\ inv[i].T = "identity"
    /\ inv[i].p1.val = E3
    /\ inv[i].out.st = "fulfilled"

\* C9: one invocation calls the computation exactly once and the transformer
\* at most once: exactly once when the computation raised or its deferred
\* value rejected, never otherwise.
C9_CallCounts ==
  \A i \in ConcCalls : IsTryCatch(i) =>
    /\ inv[i].nExpr = 1
    /\ Len(inv[i].tlog) <= 1
    /\ Done(i) =>
         (Len(inv[i].tlog) = 1 <=> (SyncThrow(i) \/ AsyncReject(i)))

\* the outcome of invocation i as its own settlement and transformer give it
OwnOutcome(i) ==
  IF inv[i].p1.kind = "fulfilled" THEN Fulfilled(ok(inv[i].p1.val))
  ELSE LET m == makeErrorResult(inv[i].p1.val, inv[i].T, FreshRef(i, 0)) IN
       IF m.out.kind = "return" THEN Fulfilled(m.out.res[1])
       ELSE Rejected(m.out.exc[1])

DeferredSettled(i) ==
  inv[i].out.kind = "deferred" /\ inv[i].out.st # "pending"

\* C10: for concurrent invocations under any interleaving, a deferred Result
\* settles only after its own deferred value has settled, then does settle,
\* with the outcome its own settlement and transformer give; once settled it
\* is not changed by the other invocations, and an invocation whose deferred
\* value never settles holds back only its own Result.
C10_ConcurrentIndependent ==
  /\ \A i \in ConcCalls :
       /\ [](DeferredSettled(i) =>
               (inv[i].p1.kind # "none" /\ inv[i].out = OwnOutcome(i)))
       /\ [](inv[i].pc = "pending" => inv[i].out = Pending)
       /\ (inv[i].pc \in {"p1", "p2"}) ~> DeferredSettled(i)
  /\ [][\A i \in ConcCalls : Done(i) => inv'[i] = inv[i]]_vars

\* C10 witness: one deferred value has not settled, another invocation's
\* deferred Result has
C10_Witness ==
  \E i, j \in ConcCalls :
    /\ i # j
    /\ inv[i].pc = "pending"
    /\ DeferredSettled(j) /\ inv[j].p1.kind = "rejected"

====
